---- MODULE Spec2Model ----
(***************************************************************************)
(* Model of wsp::details::autothread<join> and autothread<detach>          *)
(* (threadpool/workspace/autothread.h): a move-only owner of one           *)
(* std::thread whose destructor joins (join policy) or detaches (detach    *)
(* policy) the thread when it is still joinable.                           *)
(*                                                                         *)
(* A std::thread value is modelled by the identity of the thread it        *)
(* refers to, NoThread for an empty (default or moved-from) handle.        *)
(* Execution contexts are the main context (0) and the started threads;    *)
(* any context may construct, move, query or destroy a wrapper.  As for    *)
(* every C++ object, no operation starts on a wrapper whose destructor is  *)
(* already running.                                                        *)
(***************************************************************************)
EXTENDS Integers, FiniteSets, Sequences, TLC

\* ---- bounds ----
NThreads == 2
NWrappers == 3

Threads == 1..NThreads
Wrappers == 1..NWrappers
\* the caller-side std::thread object a thread is started into and adopted from
Handles == {1}

\* std::thread::id() of a handle that refers to no thread
NoThread == 0
\* the main execution context (every other context is a started thread)
MainCtx == 0
Contexts == {MainCtx} \cup Threads
NoWrapper == 0
NoRet == -1

\* struct join {}; struct detach {};  the two policy tags
join == "join"
detach == "detach"
Policies == {join, detach}

VARIABLES
    tstate,     \* per thread: "none" (not started), "running", "finished"
    flag,       \* per thread: the side effect its work writes before it ends
    joined,     \* per thread: number of successful std::thread::join calls
    detached,   \* per thread: number of successful std::thread::detach calls
    ext,        \* per caller-side std::thread handle: the thread it refers to
    wstate,     \* per wrapper: "unborn", "live", "dtor" (destructor past the
                \*   joinable() check, disposal call pending), "dead"
    policy,     \* per wrapper: the specialisation it is an instance of
    thrd,       \* per wrapper: the member std::thread thrd
    busy,       \* per context: the wrapper whose destructor it is executing
    aborted,    \* std::terminate was called
    ret,        \* value returned by the step just taken when it was a get_id
                \*   call, NoRet after any other step
    from,       \* history: the wrapper each wrapper was move-constructed from
    owned0,     \* history: the thread each wrapper held right after construction
    dtorOwned,  \* history: the thread each wrapper held when its destructor began
    finishedInDtor  \* history, per thread: it finished while its owner's
                \*   destructor stood between the joinable() check and the
                \*   disposal call

vars == <<tstate, flag, joined, detached, ext, wstate, policy, thrd, busy,
          aborted, ret, from, owned0, dtorOwned, finishedInDtor>>

threadVars == <<tstate, flag, finishedInDtor>>
histVars == <<from, owned0, dtorOwned>>

\* std::thread::joinable(): the handle refers to a thread
joinable(h) == h # NoThread

\* std::thread::get_id() on the member, as autothread::get_id returns it
get_id(w) == thrd[w]

\* a context can execute a statement: the process is alive, the context is
\* not inside a destructor, and a thread context is still running its work
CanRun(c) ==
    /\ ~aborted
    /\ busy[c] = NoWrapper
    /\ (c # MainCtx => tstate[c] = "running")

\* the context executing the destructor of w
DtorCtx(w) == CHOOSE c \in Contexts : busy[c] = w

Init ==
    /\ tstate = [t \in Threads |-> "none"]
    /\ flag = [t \in Threads |-> FALSE]
    /\ joined = [t \in Threads |-> 0]
    /\ detached = [t \in Threads |-> 0]
    /\ ext = [h \in Handles |-> NoThread]
    /\ wstate = [w \in Wrappers |-> "unborn"]
    /\ policy = [w \in Wrappers |-> "none"]
    /\ thrd = [w \in Wrappers |-> NoThread]
    /\ busy = [c \in Contexts |-> NoWrapper]
    /\ aborted = FALSE
    /\ ret = NoRet
    /\ from = [w \in Wrappers |-> NoWrapper]
    /\ owned0 = [w \in Wrappers |-> NoThread]
    /\ dtorOwned = [w \in Wrappers |-> NoThread]
    /\ finishedInDtor = [t \in Threads |-> FALSE]

\* The thread-creation collaborator starts a thread into an empty caller-side
\* handle (std::thread h(work)); thread identities are handed out in order.
StartThread(h, t, c) ==
    /\ CanRun(c)
    /\ ext[h] = NoThread
    /\ tstate[t] = "none"
    /\ \A u \in Threads : u < t => tstate[u] # "none"
    /\ ext' = [ext EXCEPT ![h] = t]
    /\ tstate' = [tstate EXCEPT ![t] = "running"]
    /\ ret' = NoRet
    /\ UNCHANGED <<flag, finishedInDtor, joined, detached, wstate, policy, thrd,
                   busy, aborted, histVars>>

\* The work of thread t writes its sentinel and the thread ends.
Finish(t) ==
    /\ ~aborted
    /\ tstate[t] = "running"
    /\ busy[t] = NoWrapper
    /\ tstate' = [tstate EXCEPT ![t] = "finished"]
    /\ flag' = [flag EXCEPT ![t] = TRUE]
    /\ finishedInDtor' = [finishedInDtor EXCEPT
          ![t] = \E w \in Wrappers : wstate[w] = "dtor" /\ thrd[w] = t]
    /\ ret' = NoRet
    /\ UNCHANGED <<joined, detached, ext, wstate, policy, thrd, busy, aborted, histVars>>

\* A constructor that copies the caller's handle instead of moving from it:
\* the caller's handle still refers to the thread afterwards.
AdoptCopy(w, h, p, c) ==
    /\ CanRun(c)
    /\ wstate[w] = "unborn"
    /\ \A v \in Wrappers : v < w => wstate[v] # "unborn"
    /\ wstate' = [wstate EXCEPT ![w] = "live"]
    /\ policy' = [policy EXCEPT ![w] = p]
    /\ thrd' = [thrd EXCEPT ![w] = ext[h]]
    /\ owned0' = [owned0 EXCEPT ![w] = ext[h]]
    /\ ret' = NoRet
    /\ UNCHANGED <<threadVars, joined, detached, ext, busy, aborted, from,
                   dtorOwned>>

\* A constructor that rejects a handle that is not joinable: the exception
\* it throws is not caught and the process terminates.
AdoptRequireJoinable(w, h, p, c) ==
    /\ CanRun(c)
    /\ wstate[w] = "unborn"
    /\ \A v \in Wrappers : v < w => wstate[v] # "unborn"
    /\ IF joinable(ext[h])
       THEN /\ wstate' = [wstate EXCEPT ![w] = "live"]
            /\ policy' = [policy EXCEPT ![w] = p]
            /\ thrd' = [thrd EXCEPT ![w] = ext[h]]
            /\ ext' = [ext EXCEPT ![h] = NoThread]
            /\ owned0' = [owned0 EXCEPT ![w] = ext[h]]
            /\ UNCHANGED aborted
       ELSE /\ aborted' = TRUE
            /\ UNCHANGED <<wstate, policy, thrd, ext, owned0>>
    /\ ret' = NoRet
    /\ UNCHANGED <<threadVars, joined, detached, busy, from, dtorOwned>>

\* A constructor that applies the detach policy at once instead of leaving
\* it to the destructor.
AdoptDetaches(w, h, p, c) ==
    /\ CanRun(c)
    /\ wstate[w] = "unborn"
    /\ \A v \in Wrappers : v < w => wstate[v] # "unborn"
    /\ wstate' = [wstate EXCEPT ![w] = "live"]
    /\ policy' = [policy EXCEPT ![w] = p]
    /\ IF p = detach /\ joinable(ext[h])
       THEN /\ detached' = [detached EXCEPT ![ext[h]] = @ + 1]
            /\ UNCHANGED thrd
       ELSE /\ thrd' = [thrd EXCEPT ![w] = ext[h]]
            /\ UNCHANGED detached
    /\ ext' = [ext EXCEPT ![h] = NoThread]
    /\ owned0' = [owned0 EXCEPT ![w] = ext[h]]
    /\ ret' = NoRet
    /\ UNCHANGED <<threadVars, joined, busy, aborted, from, dtorOwned>>

\* autothread(std::thread&& t): thrd(std::move(t)) {}   for policy p.
\* The member is move-constructed from the caller's handle, which is left
\* empty; an empty handle gives an empty member.  Wrappers are numbered in
\* the order they are constructed.
Adopt(w, h, p, c) ==
    /\ CanRun(c)
    /\ wstate[w] = "unborn"
    /\ \A v \in Wrappers : v < w => wstate[v] # "unborn"
    /\ wstate' = [wstate EXCEPT ![w] = "live"]
    /\ policy' = [policy EXCEPT ![w] = p]
    /\ thrd' = [thrd EXCEPT ![w] = ext[h]]
    /\ ext' = [ext EXCEPT ![h] = NoThread]
    /\ owned0' = [owned0 EXCEPT ![w] = ext[h]]
    /\ ret' = NoRet
    /\ UNCHANGED <<threadVars, joined, detached, busy, aborted, from,
                   dtorOwned>>

\* A move constructor that behaves as a copy: the source keeps its handle.
MoveConstructCopy(d, s, c) ==
    /\ CanRun(c)
    /\ wstate[d] = "unborn"
    /\ \A v \in Wrappers : v < d => wstate[v] # "unborn"
    /\ wstate[s] = "live"
    /\ wstate' = [wstate EXCEPT ![d] = "live"]
    /\ policy' = [policy EXCEPT ![d] = policy[s]]
    /\ thrd' = [thrd EXCEPT ![d] = thrd[s]]
    /\ from' = [from EXCEPT ![d] = s]
    /\ owned0' = [owned0 EXCEPT ![d] = thrd[s]]
    /\ ret' = NoRet
    /\ UNCHANGED <<threadVars, joined, detached, ext, busy, aborted,
                   dtorOwned>>

\* A hand-written move constructor that forgets the member: the new wrapper
\* is empty and the source keeps its handle.
MoveConstructNoTransfer(d, s, c) ==
    /\ CanRun(c)
    /\ wstate[d] = "unborn"
    /\ \A v \in Wrappers : v < d => wstate[v] # "unborn"
    /\ wstate[s] = "live"
    /\ wstate' = [wstate EXCEPT ![d] = "live"]
    /\ policy' = [policy EXCEPT ![d] = policy[s]]
    /\ from' = [from EXCEPT ![d] = s]
    /\ ret' = NoRet
    /\ UNCHANGED <<threadVars, joined, detached, ext, thrd, busy, aborted,
                   owned0, dtorOwned>>

\* A move that is also accepted onto a wrapper that already exists and is
\* empty, as a defaulted move assignment would be.
MoveConstructOrAssign(d, s, c) ==
    /\ CanRun(c)
    /\ \/ /\ wstate[d] = "unborn"
          /\ \A v \in Wrappers : v < d => wstate[v] # "unborn"
       \/ /\ wstate[d] = "live"
          /\ ~joinable(thrd[d])
          /\ d # s
    /\ wstate[s] = "live"
    /\ wstate' = [wstate EXCEPT ![d] = "live"]
    /\ policy' = [policy EXCEPT ![d] = policy[s]]
    /\ thrd' = [thrd EXCEPT ![d] = thrd[s], ![s] = NoThread]
    /\ from' = [from EXCEPT ![d] = s]
    /\ owned0' = [owned0 EXCEPT ![d] = thrd[s]]
    /\ ret' = NoRet
    /\ UNCHANGED <<threadVars, joined, detached, ext, busy, aborted,
                   dtorOwned>>

\* autothread(autothread&& other) = default;   memberwise move: the new
\* wrapper d, of the same specialisation as s, takes s.thrd and s.thrd is
\* left empty.  Neither join nor detach is called.
MoveConstruct(d, s, c) ==
    /\ CanRun(c)
    /\ wstate[d] = "unborn"
    /\ \A v \in Wrappers : v < d => wstate[v] # "unborn"
    /\ wstate[s] = "live"
    /\ wstate' = [wstate EXCEPT ![d] = "live"]
    /\ policy' = [policy EXCEPT ![d] = policy[s]]
    /\ thrd' = [thrd EXCEPT ![d] = thrd[s], ![s] = NoThread]
    /\ from' = [from EXCEPT ![d] = s]
    /\ owned0' = [owned0 EXCEPT ![d] = thrd[s]]
    /\ ret' = NoRet
    /\ UNCHANGED <<threadVars, joined, detached, ext, busy, aborted,
                   dtorOwned>>

\* A get_id that gives up the handle it reports on.
GetIdReleases(w, c) ==
    /\ CanRun(c)
    /\ wstate[w] = "live"
    /\ ret' = get_id(w)
    /\ thrd' = [thrd EXCEPT ![w] = NoThread]
    /\ UNCHANGED <<threadVars, joined, detached, ext, wstate, policy,
                   busy, aborted, histVars>>

\* A get_id that throws on an empty wrapper; the exception is not caught and
\* the process terminates.
GetIdFailsOnEmpty(w, c) ==
    /\ CanRun(c)
    /\ wstate[w] = "live"
    /\ IF joinable(thrd[w])
       THEN ret' = get_id(w) /\ UNCHANGED aborted
       ELSE ret' = NoRet /\ aborted' = TRUE
    /\ UNCHANGED <<threadVars, joined, detached, ext, wstate, policy, thrd,
                   busy, histVars>>

\* id get_id() { return thrd.get_id(); }
GetId(w, c) ==
    /\ CanRun(c)
    /\ wstate[w] = "live"
    /\ ret' = get_id(w)
    /\ UNCHANGED <<threadVars, joined, detached, ext, wstate, policy, thrd,
                   busy, aborted, histVars>>

\* A destructor that lets go of the handle without disposing of it.
DestroySkipDisposal(w, c) ==
    /\ CanRun(c)
    /\ wstate[w] = "live"
    /\ dtorOwned' = [dtorOwned EXCEPT ![w] = thrd[w]]
    /\ wstate' = [wstate EXCEPT ![w] = "dead"]
    /\ thrd' = [thrd EXCEPT ![w] = NoThread]
    /\ ret' = NoRet
    /\ UNCHANGED <<threadVars, joined, detached, ext, policy, busy, aborted,
                   from, owned0>>

\* A destructor without the joinable() check: it always goes on to the
\* disposal call.
DestroyNoCheck(w, c) ==
    /\ CanRun(c)
    /\ wstate[w] = "live"
    /\ dtorOwned' = [dtorOwned EXCEPT ![w] = thrd[w]]
    /\ wstate' = [wstate EXCEPT ![w] = "dtor"]
    /\ busy' = [busy EXCEPT ![c] = w]
    /\ ret' = NoRet
    /\ UNCHANGED <<threadVars, joined, detached, ext, policy, thrd, aborted,
                   from, owned0>>

\* ~autothread() { if (thrd.joinable()) ... }   the destructor up to and
\* including the joinable() check.  When the member is not joinable the body
\* is empty and the destructor is over (destroying an empty std::thread does
\* nothing); otherwise context c goes on to the disposal call.
Destroy(w, c) ==
    /\ CanRun(c)
    /\ wstate[w] = "live"
    /\ dtorOwned' = [dtorOwned EXCEPT ![w] = thrd[w]]
    /\ IF joinable(thrd[w])
       THEN /\ wstate' = [wstate EXCEPT ![w] = "dtor"]
            /\ busy' = [busy EXCEPT ![c] = w]
       ELSE /\ wstate' = [wstate EXCEPT ![w] = "dead"]
            /\ UNCHANGED busy
    /\ ret' = NoRet
    /\ UNCHANGED <<threadVars, joined, detached, ext, policy, thrd, aborted, from, owned0>>

\* std::thread::join reports resource_deadlock_would_occur when the caller
\* is the thread itself, and may report it when it detects that the thread
\* is in turn blocked joining the caller.
JoinWouldDeadlock(w, c) ==
    LET t == thrd[w] IN
    \/ t = c
    \/ /\ busy[t] # NoWrapper
       /\ policy[busy[t]] = join
       /\ thrd[busy[t]] = c

\* A join that returns without waiting for the thread to finish.
DtorJoinNoWait(w) ==
    /\ ~aborted
    /\ wstate[w] = "dtor"
    /\ policy[w] = join
    /\ thrd[w] # DtorCtx(w)
    /\ joined' = [joined EXCEPT ![thrd[w]] = @ + 1]
    /\ thrd' = [thrd EXCEPT ![w] = NoThread]
    /\ wstate' = [wstate EXCEPT ![w] = "dead"]
    /\ busy' = [busy EXCEPT ![DtorCtx(w)] = NoWrapper]
    /\ ret' = NoRet
    /\ UNCHANGED <<threadVars, detached, ext, policy, aborted, histVars>>

\* ... thrd.join(); }   in ~autothread<join>: blocks until the owned thread
\* has finished, then the member is empty and the destructor ends.
DtorJoin(w) ==
    /\ ~aborted
    /\ wstate[w] = "dtor"
    /\ policy[w] = join
    /\ thrd[w] # DtorCtx(w)
    /\ tstate[thrd[w]] = "finished"
    /\ joined' = [joined EXCEPT ![thrd[w]] = @ + 1]
    /\ thrd' = [thrd EXCEPT ![w] = NoThread]
    /\ wstate' = [wstate EXCEPT ![w] = "dead"]
    /\ busy' = [busy EXCEPT ![DtorCtx(w)] = NoWrapper]
    /\ ret' = NoRet
    /\ UNCHANGED <<threadVars, detached, ext, policy, aborted, histVars>>

\* ... thrd.join(); }   throwing std::system_error: the destructor has no
\* handler and is noexcept, so std::terminate ends the process.
DtorJoinThrow(w) ==
    /\ ~aborted
    /\ wstate[w] = "dtor"
    /\ policy[w] = join
    /\ JoinWouldDeadlock(w, DtorCtx(w))
    /\ aborted' = TRUE
    /\ ret' = NoRet
    /\ UNCHANGED <<threadVars, joined, detached, ext, wstate, policy, thrd,
                   busy, histVars>>

\* A detach-policy destructor that waits for the thread as join does.
DtorDetachWaits(w) ==
    /\ ~aborted
    /\ wstate[w] = "dtor"
    /\ policy[w] = detach
    /\ tstate[thrd[w]] = "finished"
    /\ detached' = [detached EXCEPT ![thrd[w]] = @ + 1]
    /\ thrd' = [thrd EXCEPT ![w] = NoThread]
    /\ wstate' = [wstate EXCEPT ![w] = "dead"]
    /\ busy' = [busy EXCEPT ![DtorCtx(w)] = NoWrapper]
    /\ ret' = NoRet
    /\ UNCHANGED <<threadVars, joined, ext, policy, aborted, histVars>>

\* A detach-policy destructor that calls join, as the join specialisation
\* does.
DtorDetachJoins(w) ==
    /\ ~aborted
    /\ wstate[w] = "dtor"
    /\ policy[w] = detach
    /\ thrd[w] # DtorCtx(w)
    /\ tstate[thrd[w]] = "finished"
    /\ joined' = [joined EXCEPT ![thrd[w]] = @ + 1]
    /\ thrd' = [thrd EXCEPT ![w] = NoThread]
    /\ wstate' = [wstate EXCEPT ![w] = "dead"]
    /\ busy' = [busy EXCEPT ![DtorCtx(w)] = NoWrapper]
    /\ ret' = NoRet
    /\ UNCHANGED <<threadVars, detached, ext, policy, aborted, histVars>>

\* ... thrd.detach(); }   in ~autothread<detach>: returns at once whatever
\* the thread is doing; the member is empty and the destructor ends.
DtorDetach(w) ==
    /\ ~aborted
    /\ wstate[w] = "dtor"
    /\ policy[w] = detach
    /\ detached' = [detached EXCEPT ![thrd[w]] = @ + 1]
    /\ thrd' = [thrd EXCEPT ![w] = NoThread]
    /\ wstate' = [wstate EXCEPT ![w] = "dead"]
    /\ busy' = [busy EXCEPT ![DtorCtx(w)] = NoWrapper]
    /\ ret' = NoRet
    /\ UNCHANGED <<threadVars, joined, ext, policy, aborted, histVars>>

\* Construction, move construction, get_id and starting a thread have the
\* same effect whichever context calls them, so one context that can run
\* stands for all of them; the context matters for the destructor, which
\* holds its caller and can be called by the owned thread itself.
Callers ==
    IF \E c \in Contexts : CanRun(c)
    THEN {CHOOSE c \in Contexts : CanRun(c)}
    ELSE {}

Next ==
    \/ \E h \in Handles, t \in Threads, c \in Callers : StartThread(h, t, c)
    \/ \E t \in Threads : Finish(t)
    \/ \E w \in Wrappers, h \in Handles, p \in Policies, c \in Callers :
          Adopt(w, h, p, c)
    \/ \E d \in Wrappers, s \in Wrappers, c \in Callers : MoveConstruct(d, s, c)
    \/ \E w \in Wrappers, c \in Callers : GetId(w, c)
    \/ \E w \in Wrappers, c \in Contexts : Destroy(w, c)
    \/ \E w \in Wrappers : DtorJoin(w)
    \/ \E w \in Wrappers : DtorJoinThrow(w)
    \/ \E w \in Wrappers : DtorDetach(w)

Spec == Init /\ [][Next]_vars

\* The scheduling the destructor relies on: a join whose thread has finished
\* returns, and a thread that can end its work does.
FairSpec ==
    /\ Spec
    /\ \A w \in Wrappers : WF_vars(DtorJoin(w))
    /\ \A t \in Threads : WF_vars(Finish(t))

TypeOK ==
    /\ tstate \in [Threads -> {"none", "running", "finished"}]
    /\ flag \in [Threads -> BOOLEAN]
    /\ finishedInDtor \in [Threads -> BOOLEAN]
    /\ joined \in [Threads -> Nat]
    /\ detached \in [Threads -> Nat]
    /\ ext \in [Handles -> Threads \cup {NoThread}]
    /\ wstate \in [Wrappers -> {"unborn", "live", "dtor", "dead"}]
    /\ policy \in [Wrappers -> Policies \cup {"none"}]
    /\ thrd \in [Wrappers -> Threads \cup {NoThread}]
    /\ busy \in [Contexts -> Wrappers \cup {NoWrapper}]
    /\ aborted \in BOOLEAN
    /\ ret \in {NoRet, NoThread} \cup Threads

\* ---- properties ----

\* number of disposal actions (join plus detach) applied to thread t
Disposals(t) == joined[t] + detached[t]

\* wrappers that exist and have not been destroyed
Alive(w) == wstate[w] \in {"live", "dtor"}

\* the threads that some wrapper was constructed from
Adopted ==
    {owned0[w] : w \in {v \in Wrappers : wstate[v] # "unborn" /\ from[v] = NoWrapper}}
        \ {NoThread}

\* C1: whatever sequence of adopt, move-construct and destroy operations is
\* run, no thread is ever joined or detached more than once in total.
C1_AtMostOneDisposal == \A t \in Threads : Disposals(t) <= 1

\* a thread adopted by a, moved to b and then to c, all three destroyed, and
\* disposed exactly once
C1_Witness ==
    \E a, b, c \in Wrappers :
        /\ from[a] = NoWrapper /\ from[b] = a /\ from[c] = b
        /\ wstate[a] = "dead" /\ wstate[b] = "dead" /\ wstate[c] = "dead"
        /\ joinable(owned0[a])
        /\ dtorOwned[c] = owned0[a]
        /\ Disposals(owned0[a]) = 1

\* C2: a destroyed wrapper that owned a joinable thread when its destructor
\* began has had exactly one disposal applied to that thread; and once no
\* wrapper is left alive, every adopted thread has been disposed exactly once.
C2_DisposedOnDestruction ==
    /\ \A w \in Wrappers :
          (wstate[w] = "dead" /\ joinable(dtorOwned[w]))
              => Disposals(dtorOwned[w]) = 1
    /\ (\A w \in Wrappers : ~Alive(w))
          => \A t \in Adopted : Disposals(t) = 1

\* every wrapper has been constructed and destroyed, and both threads were
\* adopted
C2_Witness ==
    /\ \A w \in Wrappers : wstate[w] = "dead"
    /\ Cardinality(Adopted) = 2
    /\ \A t \in Adopted : Disposals(t) = 1

\* C3: when the destructor of a join-policy wrapper that owned a joinable
\* thread has returned, that thread has finished and its sentinel write has
\* been made; until then the destroying context is held inside the destructor.
C3_JoinWaitsForThread ==
    /\ \A w \in Wrappers :
          (wstate[w] = "dead" /\ policy[w] = join /\ joinable(dtorOwned[w]))
              => (tstate[dtorOwned[w]] = "finished" /\ flag[dtorOwned[w]])
    /\ \A w \in Wrappers :
          (wstate[w] = "dtor" /\ policy[w] = join)
              => (\E c \in Contexts : busy[c] = w /\ ~CanRun(c))

C3_Witness ==
    \E w \in Wrappers :
        /\ wstate[w] = "dead" /\ policy[w] = join /\ joinable(dtorOwned[w])
        /\ joined[dtorOwned[w]] = 1
        /\ flag[dtorOwned[w]]

\* C4: the disposal call of a detach-policy destructor is always able to
\* complete, whatever the owned thread is doing, and a detached thread that
\* is still running is able to finish.
C4_DetachNeverBlocks ==
    /\ \A w \in Wrappers :
          (~aborted /\ wstate[w] = "dtor" /\ policy[w] = detach)
              => ENABLED DtorDetach(w)
    /\ \A t \in Threads :
          (~aborted /\ detached[t] = 1 /\ tstate[t] = "running"
                /\ busy[t] = NoWrapper)
              => ENABLED Finish(t)

\* a detach-policy destructor has returned while the thread it owned is still
\* running and has not yet written its sentinel
C4_Witness ==
    \E w \in Wrappers :
        /\ wstate[w] = "dead" /\ policy[w] = detach /\ joinable(dtorOwned[w])
        /\ detached[dtorOwned[w]] = 1
        /\ tstate[dtorOwned[w]] = "running"
        /\ ~flag[dtorOwned[w]]

\* C5: a step that move-constructs wrapper d from wrapper s leaves s empty,
\* makes d's identity query return what s's returned before the step, and
\* performs no join and no detach.
C5_MoveTransfers ==
    [][\A d, s \in Wrappers :
          (wstate[d] = "unborn" /\ wstate'[d] = "live" /\ from'[d] = s)
              => /\ ~joinable(thrd'[s])
                 /\ get_id(d)' = get_id(s)
                 /\ joined' = joined
                 /\ detached' = detached]_vars

\* a joinable wrapper has been moved: the source is alive and empty, the
\* destination holds the thread, which has not been disposed
C5_Witness ==
    \E d \in Wrappers :
        /\ from[d] # NoWrapper
        /\ wstate[d] = "live" /\ joinable(thrd[d])
        /\ wstate[from[d]] = "live" /\ ~joinable(thrd[from[d]])
        /\ owned0[from[d]] = thrd[d]
        /\ Disposals(thrd[d]) = 0

\* C6: a step that destroys a wrapper whose handle is not joinable ends the
\* destructor at once and changes nothing else: no join, no detach, no
\* context held, no thread and no other wrapper affected.
C6_EmptyDestroyNoOp ==
    [][\A w \in Wrappers :
          (wstate[w] = "live" /\ wstate'[w] # "live" /\ ~joinable(thrd[w]))
              => /\ wstate'[w] = "dead"
                 /\ \A v \in Wrappers \ {w} : wstate'[v] = wstate[v]
                 /\ UNCHANGED <<joined, detached, busy, aborted, tstate, flag,
                                thrd, ext, policy>>]_vars

\* a moved-from wrapper has been destroyed while the thread it once held is
\* still undisposed in its new owner
C6_Witness ==
    \E w, d \in Wrappers :
        /\ wstate[w] = "dead" /\ joinable(owned0[w]) /\ ~joinable(dtorOwned[w])
        /\ from[d] = w /\ wstate[d] = "live" /\ thrd[d] = owned0[w]
        /\ Disposals(owned0[w]) = 0

\* C7: in every reachable state each thread is held by at most one wrapper
\* that is alive.
C7_ExclusiveOwnership ==
    \A t \in Threads :
        Cardinality({w \in Wrappers : Alive(w) /\ thrd[w] = t}) <= 1

\* a thread moved twice: three wrappers alive, only the last one holds it
C7_Witness ==
    \E a, b, c \in Wrappers :
        /\ from[b] = a /\ from[c] = b
        /\ Alive(a) /\ Alive(b) /\ Alive(c)
        /\ joinable(thrd[c])
        /\ {w \in Wrappers : Alive(w) /\ thrd[w] = thrd[c]} = {c}

\* C9: no failure of a disposal call in a destructor escapes it, so the
\* process is never terminated by one.
C9_NoFailureEscapes == ~aborted

\* C10: constructing a wrapper from a handle that is not joinable does not
\* fault and gives an empty wrapper; a step that destroys a wrapper
\* constructed that way performs no join and no detach and does not fault.
C10_EmptyAdoptHarmless ==
    [][/\ \A w \in Wrappers, h \in Handles, p \in Policies, c \in Callers :
             (Adopt(w, h, p, c) /\ ~joinable(ext[h]))
                 => /\ ~aborted'
                    /\ wstate'[w] = "live"
                    /\ ~joinable(thrd'[w])
                    /\ joined' = joined /\ detached' = detached
       /\ \A w \in Wrappers :
             (wstate[w] = "live" /\ wstate'[w] # "live"
                   /\ from[w] = NoWrapper /\ ~joinable(owned0[w]))
                 => /\ wstate'[w] = "dead"
                    /\ ~aborted'
                    /\ joined' = joined /\ detached' = detached]_vars

\* a wrapper constructed from an empty handle has been destroyed and the
\* process lives on
C10_Witness ==
    \E w \in Wrappers :
        /\ wstate[w] = "dead" /\ from[w] = NoWrapper /\ ~joinable(owned0[w])
        /\ ~aborted
        /\ \A t \in Threads : Disposals(t) = 0

\* C11: once a wrapper exists, every step leaves its member as it was or
\* makes it empty: an empty wrapper never becomes joinable again and no
\* wrapper comes to hold a thread other than the one it was constructed with.
C11_NoWayBackToJoinable ==
    [][\A w \in Wrappers :
          wstate[w] # "unborn"
              => (thrd'[w] = thrd[w] \/ thrd'[w] = NoThread)]_vars

\* a moved-from wrapper is still alive and empty after the thread it once
\* held was disposed by its later owner, and no wrapper is left to construct
C11_Witness ==
    /\ \A v \in Wrappers : wstate[v] # "unborn"
    /\ \E w, d \in Wrappers :
          /\ wstate[w] = "live" /\ joinable(owned0[w]) /\ ~joinable(thrd[w])
          /\ from[d] = w /\ wstate[d] = "dead" /\ dtorOwned[d] = owned0[w]
          /\ Disposals(owned0[w]) = 1

\* C12: a get_id step changes nothing but the value it returns, and on a
\* wrapper that owns a joinable thread it returns the identity of the thread
\* the wrapper was constructed with, finished or not.
C12_GetIdPure ==
    [][/\ ret' # NoRet
             => UNCHANGED <<tstate, flag, joined, detached, ext, wstate,
                            policy, thrd, busy, aborted>>
       /\ \A w \in Wrappers, c \in Callers :
             (GetId(w, c) /\ joinable(thrd[w]))
                 => (ret' = thrd[w] /\ ret' = owned0[w])]_vars

\* get_id has just returned the identity of a thread that has already
\* finished and is still owned, undisposed, by a live wrapper
C12_Witness ==
    /\ ret \in Threads
    /\ tstate[ret] = "finished"
    /\ Disposals(ret) = 0
    /\ \E w \in Wrappers : wstate[w] = "live" /\ thrd[w] = ret

\* C13: whenever the owned thread finishes relative to the destructor's
\* joinable() check and disposal call, a destroyed join-policy wrapper has
\* joined its thread once and never detached it, a destroyed detach-policy
\* wrapper has detached it once and never joined it, and no thread is both
\* joined and detached.
C13_CheckThenActOutcome ==
    /\ \A w \in Wrappers :
          (wstate[w] = "dead" /\ joinable(dtorOwned[w]))
              => /\ policy[w] = join
                      => (joined[dtorOwned[w]] = 1 /\ detached[dtorOwned[w]] = 0)
                 /\ policy[w] = detach
                      => (detached[dtorOwned[w]] = 1 /\ joined[dtorOwned[w]] = 0)
    /\ \A t \in Threads : ~(joined[t] > 0 /\ detached[t] > 0)

\* a join-policy and a detach-policy wrapper have both been destroyed, each
\* with its thread finishing between the joinable() check and the disposal
C13_Witness ==
    \E a, b \in Wrappers :
        /\ wstate[a] = "dead" /\ policy[a] = join /\ joinable(dtorOwned[a])
        /\ wstate[b] = "dead" /\ policy[b] = detach /\ joinable(dtorOwned[b])
        /\ finishedInDtor[dtorOwned[a]] /\ finishedInDtor[dtorOwned[b]]
        /\ joined[dtorOwned[a]] = 1 /\ detached[dtorOwned[b]] = 1

\* C14: a thread has been joined or detached only if a wrapper that held it
\* when its destructor began has been destroyed.
C14_OnlyDestructionDisposes ==
    \A t \in Threads :
        Disposals(t) > 0
            => \E w \in Wrappers : wstate[w] = "dead" /\ dtorOwned[w] = t

\* one thread has been disposed by a destructor while another, adopted and
\* then moved, is still undisposed in a live wrapper
C14_Witness ==
    \E w, d \in Wrappers :
        /\ wstate[w] = "dead" /\ joinable(dtorOwned[w])
        /\ Disposals(dtorOwned[w]) = 1
        /\ wstate[d] = "live" /\ from[d] # NoWrapper /\ joinable(thrd[d])
        /\ Disposals(thrd[d]) = 0

\* C15: a join-policy destructor whose owned thread has finished eventually
\* returns.
C15_JoinReturnsOnceFinished ==
    \A w \in Wrappers :
        (wstate[w] = "dtor" /\ policy[w] = join /\ tstate[thrd[w]] = "finished")
            ~> (wstate[w] = "dead")

\* C16: get_id on a live wrapper that is empty does not fault, returns the
\* no-thread identity, which is the identity of no started thread, and leaves
\* the wrapper alive and empty.
C16_GetIdOnEmpty ==
    [][\A w \in Wrappers, c \in Callers :
          (GetId(w, c) /\ ~joinable(thrd[w]))
              => /\ ret' = NoThread
                 /\ \A t \in Threads : tstate[t] # "none" => ret' # t
                 /\ ~aborted'
                 /\ wstate'[w] = "live"
                 /\ ~joinable(thrd'[w])]_vars

\* get_id has just returned the no-thread identity while a moved-from wrapper
\* and a wrapper constructed from an empty handle are alive and a thread runs
C16_Witness ==
    /\ ret = NoThread
    /\ ~aborted
    /\ \E t \in Threads : tstate[t] = "running"
    /\ \E w \in Wrappers :
          wstate[w] = "live" /\ ~joinable(thrd[w]) /\ joinable(owned0[w])
    /\ \E w \in Wrappers :
          wstate[w] = "live" /\ from[w] = NoWrapper /\ ~joinable(owned0[w])

====
